---- MODULE Spec2Model ----
(***************************************************************************)
(* Model of the download engine of huggingface-go (main.go): Download,     *)
(* fetchFileListRecursive, processFileDownload, downloadFileWithRetry and  *)
(* downloadFileAtomically, run by the errgroup of Download with a          *)
(* concurrency limit.  Spec starts after the listing, SpecTree is the      *)
(* listing up to the start of the pool, SpecRun is the whole of Download.  *)
(*                                                                         *)
(* A file on disk is modelled by its size (the only thing the code ever    *)
(* reads back through os.Stat); Absent is a path that does not exist.      *)
(* The server and the local file system are the environment: each          *)
(* descriptor has a profile, "good" (every request answered as HTTP        *)
(* prescribes, no local fault), "down" (every request fails) or "flaky"    *)
(* (any outcome the code can observe).                                     *)
(***************************************************************************)
EXTENDS Integers, Sequences, FiniteSets, TLC

\* ---------------------------------------------------------------- constants
maxRetries == 5
\* retryDelay = 3 * time.Second, in seconds
retryDelay == 3

\* ------------------------------------------------------------------- bounds
\* Largest descriptor size; a body never makes a file longer than MaxSize + 1.
MaxSize == 2
\* Longest descriptor list.
NumFiles == 3
\* Largest concurrency limit (flag -w).
MaxWorkers == 2

Absent == -1
NoRange == -1
MaxDisk == MaxSize + 1

VARIABLES
    tree,         \* environment: the repository, a sequence of [path, type, size, dir]
    targetSubFolder, \* d.targetSubFolder
    listFault,    \* environment: the directory whose listing query fails, and how
    pending,      \* entries the listing has received and not yet looked at
    entries,      \* entries of fetchFileListRecursive: the files found so far
    queries,      \* paths of the listing queries sent so far
    grants,       \* tokens d.apiRateLimiter has granted so far
    parentDone,   \* the context the caller gave to Download is cancelled
    files,        \* d.filesToDownload: sequence of [path, size]
    workerCount,  \* d.workerCount
    profile,      \* environment: behaviour of server and file system per descriptor
    rootOk,       \* environment: os.MkdirAll(d.localModelDir) succeeds
    disk,         \* local file system: path -> size, or Absent
    disk0,        \* the local file system before the run
    mainpc,       \* position of Download: "list", "setup", "launch", "returned"
    rootCreated,  \* os.MkdirAll(d.localModelDir) has made the root directory
    mainret,      \* what Download returned: "running", "nil", "err"
    mainErr,      \* the error Download returned
    totalSize,    \* d.totalSize
    totalBar,     \* current value of the aggregate progress bar
    pc,           \* position of each worker
    i,            \* loop variable of downloadFileWithRetry
    calls,        \* calls of downloadFileAtomically made so far
    fails,        \* calls of downloadFileAtomically that returned an error
    reqs,         \* requests the worker put on the network
    lastErr,      \* lastErr of downloadFileWithRetry
    delay,        \* delay of downloadFileWithRetry, in seconds
    startOffset,  \* startOffset of downloadFileAtomically
    req,          \* Range offset of the request of the current attempt
    resp,         \* status of the response being streamed (0: none)
    contentStart, \* offset of the first byte of the body being streamed
    bar,          \* current value of the per-file progress bar
    ret,          \* what processFileDownload returned: "running", "nil", "err"
    err,          \* the error processFileDownload returned
    gErr,         \* g.err of the errgroup
    ctxDone       \* the errgroup's context is cancelled

vars == <<tree, targetSubFolder, listFault, pending, entries, queries, grants, parentDone,
          files, workerCount, profile, rootOk, disk, disk0, mainpc, rootCreated, mainret, mainErr,
          totalSize, totalBar, pc, i, calls, fails, reqs, lastErr, delay, startOffset,
          req, resp, contentStart, bar, ret, err, gErr, ctxDone>>

listing == <<tree, targetSubFolder, listFault, pending, entries, queries, grants, parentDone>>
config == <<listing, files, workerCount, profile, rootOk, disk0>>
mainVars == <<mainpc, rootCreated, mainret, mainErr, totalSize>>

\* ------------------------------------------------------------------ helpers
Names == <<"a.bin", "b.bin", "c.bin", "d.bin", "e.bin">>
localModelDir == "out"

Workers == 1..Len(files)

\* filepath.Join(d.localModelDir, file.Path)
localFilePath(k) == localModelDir \o "/" \o files[k].path

\* tmpPath := localPath + ".tmp"
tmpPath(k) == localFilePath(k) \o ".tmp"

AllPaths(fs) ==
    {localModelDir \o "/" \o fs[k].path : k \in 1..Len(fs)}
        \cup {localModelDir \o "/" \o fs[k].path \o ".tmp" : k \in 1..Len(fs)}

NoErr == [file |-> 0, kind |-> "none", call |-> 0]

\* no listing query fails
NoFault == [dir |-> "-", kind |-> "none"]

\* mutant: d.totalSize = file.Size instead of +=
SumSizesLastOnly(fs, n) == IF n = 0 THEN 0 ELSE fs[n].size

RECURSIVE SumSizes(_, _)
SumSizes(fs, n) == IF n = 0 THEN 0 ELSE fs[n].size + SumSizes(fs, n - 1)

\* workers launched by g.Go whose goroutine has not finished
Active == {k \in Workers : pc[k] \notin {"idle", "exited"}}

\* ---------------------------------------------------------------- errgroup
\* mutant: every error overwrites g.err
LastError(g, e) == e

\* errOnce.Do(func() { g.err = err; ... }): only the first error is kept
FirstError(g, e) == IF g = NoErr THEN e ELSE g

\* mutant: a group without context, an error cancels nothing
NoCancelOnError(r) == ctxDone

\* errOnce.Do(func() { ...; g.cancel(g.err) }): a failing worker cancels the context
CancelOnError(r) == ctxDone \/ r = "err"

\* mutant: no g.SetLimit
SlotAlwaysFree == TRUE

\* g.SetLimit(d.workerCount): g.Go blocks while workerCount goroutines are active
SlotFree == Cardinality(Active) < workerCount

\* processFileDownload returns: the goroutine of g.Go records the error, cancels
\* the context and releases its slot
Return(k, r, e) ==
    /\ pc' = [pc EXCEPT ![k] = "exited"]
    /\ ret' = [ret EXCEPT ![k] = r]
    /\ err' = [err EXCEPT ![k] = e]
    /\ gErr' = IF r = "err" THEN FirstError(gErr, e) ELSE gErr
    /\ ctxDone' = CancelOnError(r)
    /\ UNCHANGED <<lastErr, fails, delay>>

\* return errors.New("Failed to download ... after max retries: " + err)
Wrapped(k, e) == [file |-> k, kind |-> e.kind, call |-> e.call]

\* mutant: a delay that grows by one second per attempt
DelayLinear(n) == n + retryDelay

\* delay := time.Duration(i*i)*time.Second + retryDelay, in seconds
Delay(n) == n * n + retryDelay

\* downloadFileAtomically returns an error: lastErr = err, then the backoff sleep
Fail(k, kind) ==
    /\ pc' = [pc EXCEPT ![k] = "sleep"]
    /\ lastErr' = [lastErr EXCEPT ![k] = [file |-> k, kind |-> kind, call |-> calls[k]]]
    /\ fails' = [fails EXCEPT ![k] = @ + 1]
    /\ delay' = [delay EXCEPT ![k] = Delay(i[k])]
    /\ UNCHANGED <<ret, err, gErr, ctxDone>>

Goto(k, where) ==
    /\ pc' = [pc EXCEPT ![k] = where]
    /\ UNCHANGED <<ret, err, gErr, ctxDone, lastErr, fails, delay>>

\* ------------------------------------------------------------- environment
\* outcomes of os.Rename(tmpPath, localPath)
RenameOutcomes(k) == IF profile[k] = "flaky" THEN {TRUE, FALSE} ELSE {TRUE}

\* the status HTTP prescribes for a request with Range offset r of a file of size n
ProperStatus(r, n) == IF r = NoRange THEN 200 ELSE IF r < n THEN 206 ELSE 416

\* the offset at which the body HTTP prescribes for Range offset r starts
ProperStart(r) == IF r = NoRange THEN 0 ELSE r

\* outcomes of httpClient.Do(req) once the request is on the network, followed by
\* os.MkdirAll and os.OpenFile: status 0 is a transport error
Responses(k) ==
    (CASE profile[k] = "good" ->
              {[status |-> ProperStatus(req[k], files[k].size), fs |-> "ok",
                start |-> ProperStart(req[k])]}
       [] profile[k] = "down" -> {[status |-> 0, fs |-> "ok", start |-> 0]}
       [] OTHER ->
              {[status |-> 0, fs |-> "ok", start |-> 0],
               [status |-> 500, fs |-> "ok", start |-> 0]}
                  \cup [status : {200}, fs : {"ok", "mkdir", "open"}, start : {0}]
                  \cup [status : {206}, fs : {"ok", "mkdir", "open"},
                        start : {0, ProperStart(req[k])}])
        \cup (IF ctxDone THEN {[status |-> 0, fs |-> "ok", start |-> 0]} ELSE {})

\* the body HTTP prescribes for the response being streamed
ProperBody(k) == IF resp[k] = 206 THEN files[k].size - req[k] ELSE files[k].size

\* outcomes of io.Copy and the rename after it: n bytes reach the staging file,
\* then the body ends cleanly or with a read or write error
Copies(k) ==
    (CASE profile[k] = "good" -> {[n |-> ProperBody(k), end |-> "eof", rename |-> TRUE]}
       [] profile[k] = "down" -> {}
       [] OTHER ->
              [n : 0..(MaxDisk - disk[tmpPath(k)]), end : {"eof"}, rename : {TRUE, FALSE}]
                  \cup [n : 0..(MaxDisk - disk[tmpPath(k)]), end : {"err"}, rename : {TRUE}])
        \cup (IF ctxDone /\ profile[k] = "good"
                 THEN [n : 0..ProperBody(k), end : {"err"}, rename : {TRUE}]
                 ELSE {})

\* ------------------------------------------------------------ initial state
\* One descriptor, any size, any environment; an earlier run may have left a
\* staging file of any size and a final file of the right or of a wrong size.
SingleFiles == {<<[path |-> Names[1], size |-> n]>> : n \in 0..MaxSize}

\* Several descriptors of decreasing sizes MaxSize, MaxSize - 1, ..., 0, 0, ...
ListSize(k) == IF MaxSize + 1 - k > 0 THEN MaxSize + 1 - k ELSE 0
ListFiles == {[k \in 1..n |-> [path |-> Names[k], size |-> ListSize(k)]] : n \in {0} \cup 2..NumFiles}

InitSingle ==
    /\ files \in SingleFiles
    /\ profile \in [1..1 -> {"good", "down", "flaky"}]
    /\ disk0 \in [AllPaths(files) -> Absent..MaxDisk]
    /\ disk0[localModelDir \o "/" \o files[1].path] \in {Absent, files[1].size, MaxDisk}
    /\ workerCount = 1

\* a list: at most one final file is already there, complete; no staging file;
\* the server is down for at most two descriptors
InitList ==
    /\ files \in ListFiles
    /\ profile \in [1..Len(files) -> {"good", "down"}]
    /\ Cardinality({k \in 1..Len(files) : profile[k] = "down"}) <= 2
    /\ disk0 \in [AllPaths(files) -> Absent..MaxDisk]
    /\ \A k \in 1..Len(files) :
          /\ disk0[localModelDir \o "/" \o files[k].path] \in {Absent, files[k].size}
          /\ disk0[localModelDir \o "/" \o files[k].path \o ".tmp"] = Absent
    /\ Cardinality({p \in DOMAIN disk0 : disk0[p] # Absent}) <= 1
    /\ workerCount \in 1..MaxWorkers

\* the state after a listing that found the descriptors of files
Init ==
    /\ InitSingle \/ InitList
    /\ tree = <<>>
    /\ targetSubFolder = ""
    /\ listFault = NoFault
    /\ pending = <<>>
    /\ entries = files
    /\ queries = <<"">>
    /\ grants = 1
    /\ parentDone = FALSE
    /\ rootOk \in BOOLEAN
    /\ rootCreated = FALSE
    /\ disk = disk0
    /\ mainpc = "setup"
    /\ mainret = "running"
    /\ mainErr = NoErr
    /\ totalSize = 0
    /\ totalBar = 0
    /\ pc = [k \in Workers |-> "idle"]
    /\ i = [k \in Workers |-> 0]
    /\ calls = [k \in Workers |-> 0]
    /\ fails = [k \in Workers |-> 0]
    /\ reqs = [k \in Workers |-> 0]
    /\ lastErr = [k \in Workers |-> NoErr]
    /\ delay = [k \in Workers |-> 0]
    /\ startOffset = [k \in Workers |-> 0]
    /\ req = [k \in Workers |-> NoRange]
    /\ resp = [k \in Workers |-> 0]
    /\ contentStart = [k \in Workers |-> 0]
    /\ bar = [k \in Workers |-> 0]
    /\ ret = [k \in Workers |-> "running"]
    /\ err = [k \in Workers |-> NoErr]
    /\ gErr = NoErr
    /\ ctxDone = FALSE

\* ----------------------------------------------------------------- Download
\* mutant: the error of os.MkdirAll is dropped
MkdirAllErrorDropped == TRUE

\* os.MkdirAll(d.localModelDir, os.ModePerm) returns nil
MkdirAllOk == rootOk

\* Download up to the start of the pool: the empty list, d.totalSize, os.MkdirAll
Setup ==
    /\ mainpc = "setup"
    /\ IF Len(files) = 0
          THEN /\ mainpc' = "returned"
               /\ mainret' = "nil"
               /\ UNCHANGED <<mainErr, totalSize, rootCreated>>
          ELSE /\ totalSize' = totalSize + SumSizes(files, Len(files))
               /\ rootCreated' = rootOk
               /\ IF MkdirAllOk
                     THEN /\ mainpc' = "launch"
                          /\ UNCHANGED <<mainret, mainErr>>
                     ELSE /\ mainpc' = "returned"
                          /\ mainret' = "err"
                          /\ mainErr' = [file |-> 0, kind |-> "setup", call |-> 0]
    /\ UNCHANGED <<config, disk, totalBar, pc, i, calls, fails, reqs, lastErr, delay,
                   startOffset, req, resp, contentStart, bar, ret, err, gErr, ctxDone>>

\* g.Go(func() error { return d.processFileDownload(ctx, file, pool, totalBar) })
Launch(k) ==
    /\ mainpc = "launch"
    /\ pc[k] = "idle"
    /\ \A j \in 1..(k - 1) : pc[j] # "idle"
    /\ SlotFree
    /\ pc' = [pc EXCEPT ![k] = "start"]
    /\ UNCHANGED <<config, mainVars, disk, totalBar, i, calls, fails, reqs, lastErr, delay,
                   startOffset, req, resp, contentStart, bar, ret, err, gErr, ctxDone>>

\* mutant: Wait returns as soon as an error is recorded
FinishedOrFailed == (\A k \in Workers : pc[k] = "exited") \/ gErr # NoErr

\* g.wg.Wait(): every goroutine started by g.Go has finished
AllFinished == \A k \in Workers : pc[k] = "exited"

\* g.Wait() returns g.err once every goroutine has finished
Wait ==
    /\ mainpc = "launch"
    /\ AllFinished
    /\ mainpc' = "returned"
    /\ mainret' = IF gErr = NoErr THEN "nil" ELSE "err"
    /\ mainErr' = gErr
    /\ ctxDone' = TRUE
    /\ UNCHANGED <<config, totalSize, rootCreated, disk, totalBar, pc, i, calls, fails, reqs,
                   lastErr, delay, startOffset, req, resp, contentStart, bar, ret, err, gErr>>

\* ------------------------------------------------------ processFileDownload
\* os.Stat(localFilePath) succeeds and stat.Size() == file.Size
AlreadyComplete(k) == disk[localFilePath(k)] = files[k].size

\* mutant: the skipped file is not reported to the aggregate bar
SkipProgressNone(k) == 0

\* totalBar.Add64(file.Size) for a file that is already there
SkipProgress(k) == files[k].size

Process(k) ==
    /\ pc[k] = "start"
    /\ IF AlreadyComplete(k)
          THEN /\ totalBar' = totalBar + SkipProgress(k)
               /\ Return(k, "nil", NoErr)
          ELSE /\ Goto(k, "retry")
               /\ UNCHANGED totalBar
    /\ UNCHANGED <<config, mainVars, disk, i, calls, reqs, startOffset, req, resp, contentStart, bar>>

\* ---------------------------------------------------- downloadFileWithRetry
\* mutants: the loop bound off by one, either way
LoopStopsEarly(n) == n < maxRetries - 1

LoopRunsOnceMore(n) == n <= maxRetries

\* mutant: a loop without ceiling
LoopForever(n) == TRUE

\* for i := 0; i < maxRetries; i++
LoopContinues(n) == n < maxRetries

\* mutant: the loop head does not look at the context
CtxNeverObserved == FALSE

\* select { case <-ctx.Done(): return ctx.Err(); default: }
CtxObserved == ctxDone

LoopTop(k) ==
    /\ pc[k] = "retry"
    /\ IF ~LoopContinues(i[k])
          THEN /\ Return(k, "err", Wrapped(k, lastErr[k]))
               /\ UNCHANGED calls
          ELSE IF CtxObserved
          THEN /\ Return(k, "err", [file |-> k, kind |-> "canceled", call |-> 0])
               /\ UNCHANGED calls
          ELSE /\ Goto(k, "attempt")
               /\ calls' = [calls EXCEPT ![k] = @ + 1]
    /\ UNCHANGED <<config, mainVars, disk, totalBar, i, reqs, startOffset, req, resp, contentStart, bar>>

\* time.Sleep(delay); bar.SetCurrent(0); i++
Sleep(k) ==
    /\ pc[k] = "sleep"
    /\ bar' = [bar EXCEPT ![k] = 0]
    /\ i' = [i EXCEPT ![k] = @ + 1]
    /\ Goto(k, "retry")
    /\ UNCHANGED <<config, mainVars, disk, totalBar, calls, reqs, startOffset, req, resp, contentStart>>

\* --------------------------------------------------- downloadFileAtomically
\* mutant: every attempt starts from offset 0
StatOffsetZero(k) == 0

\* if stat, err := os.Stat(tmpPath); err == nil { startOffset = stat.Size() }
StatOffset(k) == IF disk[tmpPath(k)] = Absent THEN 0 ELSE disk[tmpPath(k)]

\* if startOffset > 0 { req.Header.Set("Range", "bytes=<startOffset>-") }
RangeHeader(s) == IF s > 0 THEN s ELSE NoRange

\* mutant: no shortcut for a complete staging file
ResumeNeverComplete(k, s) == FALSE

\* if startOffset > 0 { if startOffset == file.Size { ... return os.Rename(...) } }
ResumeComplete(k, s) == s > 0 /\ s = files[k].size

\* mutant: the response is written straight to the final path
WritePathFinal(k) == localFilePath(k)

\* the path handed to os.OpenFile
WritePath(k) == tmpPath(k)

\* mutant: O_TRUNC whatever the status
OpenSizeTruncates(status, cur) == 0

\* mutant: O_APPEND whatever the status
OpenSizeAppends(status, cur) == IF cur # Absent THEN cur ELSE 0

\* size of the staging file after os.OpenFile: O_APPEND keeps it on 206, O_TRUNC
\* empties it otherwise; O_CREATE makes a missing one
OpenSize(status, cur) == IF status = 206 /\ cur # Absent THEN cur ELSE 0

\* os.Rename(tmpPath, localPath)
Renamed(k) == [disk EXCEPT ![localFilePath(k)] = disk[tmpPath(k)], ![tmpPath(k)] = Absent]

\* mutant: the request is sent whatever the state of the context
DoNeverRefuses == FALSE

\* httpClient.Do(req) of a request whose context is done sends nothing and
\* returns the context's error
DoRefuses == ctxDone

Attempt(k) ==
    /\ pc[k] = "attempt"
    /\ LET s == StatOffset(k) IN
       IF ResumeComplete(k, s)
          THEN /\ totalBar' = totalBar + (files[k].size - bar[k])
               /\ bar' = [bar EXCEPT ![k] = files[k].size]
               /\ \E ok \in RenameOutcomes(k) :
                     IF ok THEN /\ disk' = Renamed(k)
                                /\ Return(k, "nil", NoErr)
                           ELSE /\ Fail(k, "rename")
                                /\ UNCHANGED disk
               /\ UNCHANGED <<startOffset, req, reqs>>
          ELSE /\ IF DoRefuses
                     THEN /\ Fail(k, "request")
                          /\ UNCHANGED <<startOffset, req, reqs>>
                     ELSE /\ Goto(k, "inflight")
                          /\ startOffset' = [startOffset EXCEPT ![k] = s]
                          /\ req' = [req EXCEPT ![k] = RangeHeader(s)]
                          /\ reqs' = [reqs EXCEPT ![k] = @ + 1]
               /\ UNCHANGED <<disk, totalBar, bar>>
    /\ UNCHANGED <<config, mainVars, i, calls, resp, contentStart>>

\* mutant: every response is accepted whatever its status
StatusAcceptedAny(status) == status # 0

\* resp.StatusCode is http.StatusOK or http.StatusPartialContent
StatusAccepted(status) == status \in {200, 206}

Respond(k) ==
    /\ pc[k] = "inflight"
    /\ \E o \in Responses(k) :
          IF StatusAccepted(o.status) /\ o.fs = "ok"
             THEN /\ disk' = [disk EXCEPT ![WritePath(k)] = OpenSize(o.status, @)]
                  /\ startOffset' = [startOffset EXCEPT ![k] = IF o.status = 206 THEN @ ELSE 0]
                  /\ bar' = [bar EXCEPT ![k] = startOffset'[k]]
                  /\ resp' = [resp EXCEPT ![k] = o.status]
                  /\ contentStart' = [contentStart EXCEPT ![k] = o.start]
                  /\ Goto(k, "stream")
                  /\ UNCHANGED req
             ELSE /\ Fail(k, IF o.status = 0 THEN "request"
                             ELSE IF ~StatusAccepted(o.status) THEN "status"
                             ELSE o.fs)
                  /\ startOffset' = [startOffset EXCEPT ![k] = 0]
                  /\ req' = [req EXCEPT ![k] = NoRange]
                  /\ UNCHANGED <<disk, bar, resp, contentStart>>
    /\ UNCHANGED <<config, mainVars, totalBar, i, calls, reqs>>

Copy(k) ==
    /\ pc[k] = "stream"
    /\ \E c \in Copies(k) :
          LET written == [disk EXCEPT ![WritePath(k)] = @ + c.n] IN
          /\ bar' = [bar EXCEPT ![k] = @ + c.n]
          /\ totalBar' = totalBar + c.n
          /\ IF c.end = "eof" /\ c.rename
                THEN /\ disk' = [written EXCEPT ![localFilePath(k)] = written[tmpPath(k)],
                                                ![tmpPath(k)] = Absent]
                     /\ Return(k, "nil", NoErr)
                ELSE /\ disk' = written
                     /\ Fail(k, IF c.end = "err" THEN "copy" ELSE "rename")
    /\ startOffset' = [startOffset EXCEPT ![k] = 0]
    /\ req' = [req EXCEPT ![k] = NoRange]
    /\ resp' = [resp EXCEPT ![k] = 0]
    /\ contentStart' = [contentStart EXCEPT ![k] = 0]
    /\ UNCHANGED <<config, mainVars, i, calls, reqs>>

\* ---------------------------------------------------------------- the run
Next ==
    \/ Setup
    \/ Wait
    \/ \E k \in Workers : Launch(k)
    \/ \E k \in Workers : Process(k)
    \/ \E k \in Workers : LoopTop(k)
    \/ \E k \in Workers : Attempt(k)
    \/ \E k \in Workers : Respond(k)
    \/ \E k \in Workers : Copy(k)
    \/ \E k \in Workers : Sleep(k)

Spec == Init /\ [][Next]_vars

\* ------------------------------------------------------------ tree listing
\* The repository as the tree API serves it: a query for directory dir answers
\* with the entries below whose dir it is, in this order.
TreeUniverse ==
    << [path |-> "te",     type |-> "directory", size |-> 0, dir |-> ""],
       [path |-> "te/c",   type |-> "file",      size |-> 1, dir |-> "te"],
       [path |-> "te/s",   type |-> "directory", size |-> 0, dir |-> "te"],
       [path |-> "te/s/w", type |-> "file",      size |-> 2, dir |-> "te/s"],
       [path |-> "teb",    type |-> "directory", size |-> 0, dir |-> ""],
       [path |-> "teb/x",  type |-> "file",      size |-> 1, dir |-> "teb"],
       [path |-> "n",      type |-> "file",      size |-> 1, dir |-> ""],
       [path |-> "n.tmp",  type |-> "file",      size |-> 0, dir |-> ""] >>

\* the values of -u's subfolder part explored
Filters == {"", "te", "teb", "te/c", "te/s", "n", "zz"}

\* every entry of a tree lies in the root or in a directory of the tree
ParentClosed(S) ==
    \A n \in S : TreeUniverse[n].dir = ""
                    \/ \E m \in S : /\ TreeUniverse[m].path = TreeUniverse[n].dir
                                    /\ TreeUniverse[m].type = "directory"

SubTree(S) == SelectSeq(TreeUniverse, LAMBDA e : \E n \in S : TreeUniverse[n] = e)

Trees == {SubTree(S) : S \in {S \in SUBSET (1..Len(TreeUniverse)) : ParentClosed(S)}}

\* the directories of tree t a query can be sent for; "" is the root
Dirs(t) == {""} \cup {t[n].path : n \in {n \in 1..Len(t) : t[n].type = "directory"}}

FileEntries(t) == SelectSeq(t, LAMBDA e : e.type = "file")

\* the entries json.Unmarshal yields for the query of directory p
Children(t, p) == SelectSeq(t, LAMBDA e : e.dir = p)

\* strings.HasPrefix(s, prefix)
HasPrefix(s, prefix) == Len(s) >= Len(prefix) /\ SubSeq(s, 1, Len(prefix)) = prefix

\* mutant: the filter without the "/" boundary
KeepAnyPrefix(F, path) == F = "" \/ HasPrefix(path, F)

\* d.targetSubFolder == "" || strings.HasPrefix(entry.Path, d.targetSubFolder+"/")
\*     || entry.Path == d.targetSubFolder
Keep(F, path) == F = "" \/ HasPrefix(path, F \o "/") \/ path = F

\* mutant: only a failure of the root query is returned
QueryFailsAtRootOnly(p) == listFault.dir = p /\ p = ""

\* httpClient.Do fails, the status is not 200 or json.Unmarshal fails
QueryFails(p) == listFault.dir = p

\* mutant: a directory the filter does not keep is not listed
RecursedIfKept(F, e) == e.type = "directory" /\ (e.path = "" \/ Keep(F, e.path))

\* else if entry.Type == "directory": the recursive call, whatever the filter
Recursed(F, e) == e.type = "directory"

\* return nil, err in every call of the recursion, then
\* return fmt.Errorf("failed to fetch file list: %w", err) in Download
ListFails ==
    /\ pending' = <<>>
    /\ entries' = <<>>
    /\ mainpc' = "returned"
    /\ mainret' = "err"
    /\ mainErr' = [file |-> 0, kind |-> "list", call |-> 0]

\* mutant: the limiter grants its token whatever the state of the context
WaitNeverRefuses == FALSE

\* d.apiRateLimiter.Wait(ctx) returns the context's error when ctx is done,
\* before or while it waits for the token
WaitRefuses == parentDone

\* if err := d.apiRateLimiter.Wait(ctx); err != nil { return nil, err }: the
\* call for the directory at the head of pending gets its token, or gives up
ListWait ==
    /\ mainpc = "list"
    /\ pending # <<>>
    /\ Recursed(targetSubFolder, Head(pending))
    /\ grants = Len(queries)
    /\ IF WaitRefuses
          THEN /\ ListFails
               /\ UNCHANGED grants
          ELSE /\ grants' = grants + 1
               /\ UNCHANGED <<pending, entries, mainpc, mainret, mainErr>>
    /\ UNCHANGED <<tree, targetSubFolder, listFault, queries, parentDone, files, workerCount,
                   profile, rootOk, disk, disk0, rootCreated, totalSize, totalBar, pc, i,
                   calls, fails, reqs, lastErr, delay, startOffset, req, resp, contentStart, bar,
                   ret, err, gErr, ctxDone>>

\* environment: the caller of Download cancels the context during the listing
ParentCancel ==
    /\ mainpc = "list"
    /\ ~parentDone
    /\ parentDone' = TRUE
    /\ UNCHANGED <<tree, targetSubFolder, listFault, pending, entries, queries, grants,
                   files, workerCount, profile, rootOk, disk, disk0, mainVars, totalBar,
                   pc, i, calls, fails, reqs, lastErr, delay, startOffset, req, resp,
                   contentStart, bar, ret, err, gErr, ctxDone>>

\* one iteration of `for _, entry := range rawEntries`, with the recursive call and
\* its query when the entry is a directory; the call of Download for the root is
\* the pseudo entry "" that pending starts with
ListEntry ==
    /\ mainpc = "list"
    /\ pending # <<>>
    /\ LET e == Head(pending) IN
       IF Recursed(targetSubFolder, e)
          THEN /\ grants > Len(queries)
               /\ IF parentDone
                     THEN /\ ListFails
                          /\ UNCHANGED queries
                     ELSE /\ queries' = Append(queries, e.path)
                          /\ IF QueryFails(e.path)
                                THEN ListFails
                                ELSE /\ pending' = Children(tree, e.path) \o Tail(pending)
                                     /\ UNCHANGED <<entries, mainpc, mainret, mainErr>>
          ELSE /\ pending' = Tail(pending)
               /\ entries' = IF e.type = "file" /\ Keep(targetSubFolder, e.path)
                                THEN Append(entries, [path |-> e.path, size |-> e.size])
                                ELSE entries
               /\ UNCHANGED <<queries, mainpc, mainret, mainErr>>
    /\ UNCHANGED <<tree, targetSubFolder, listFault, grants, parentDone, files, workerCount,
                   profile, rootOk, disk, disk0, rootCreated, totalSize, totalBar, pc, i,
                   calls, fails, reqs, lastErr, delay, startOffset, req, resp, contentStart, bar,
                   ret, err, gErr, ctxDone>>

\* d.filesToDownload = allFiles
ListDone ==
    /\ mainpc = "list"
    /\ pending = <<>>
    /\ files' = entries
    /\ mainpc' = "setup"
    /\ pc' = [k \in 1..Len(entries) |-> "idle"]
    /\ i' = [k \in 1..Len(entries) |-> 0]
    /\ calls' = [k \in 1..Len(entries) |-> 0]
    /\ fails' = [k \in 1..Len(entries) |-> 0]
    /\ reqs' = [k \in 1..Len(entries) |-> 0]
    /\ lastErr' = [k \in 1..Len(entries) |-> NoErr]
    /\ delay' = [k \in 1..Len(entries) |-> 0]
    /\ startOffset' = [k \in 1..Len(entries) |-> 0]
    /\ req' = [k \in 1..Len(entries) |-> NoRange]
    /\ resp' = [k \in 1..Len(entries) |-> 0]
    /\ contentStart' = [k \in 1..Len(entries) |-> 0]
    /\ bar' = [k \in 1..Len(entries) |-> 0]
    /\ ret' = [k \in 1..Len(entries) |-> "running"]
    /\ err' = [k \in 1..Len(entries) |-> NoErr]
    /\ UNCHANGED <<listing, workerCount, profile, rootOk, disk, disk0, rootCreated,
                   mainret, mainErr, totalSize, totalBar, gErr, ctxDone>>

\* the state when Download is called: nothing listed, no worker, an empty target
InitDownload ==
    /\ targetSubFolder \in Filters
    /\ listFault \in {NoFault} \cup [dir : Dirs(tree), kind : {"request", "status", "json"}]
    /\ pending = <<[path |-> "", type |-> "directory", size |-> 0, dir |-> ""]>>
    /\ entries = <<>>
    /\ queries = <<>>
    /\ grants = 0
    /\ parentDone = FALSE
    /\ files = <<>>
    /\ rootOk \in BOOLEAN
    /\ rootCreated = FALSE
    /\ disk0 = [q \in AllPaths(FileEntries(tree)) |-> Absent]
    /\ disk = disk0
    /\ mainpc = "list"
    /\ mainret = "running"
    /\ mainErr = NoErr
    /\ totalSize = 0
    /\ totalBar = 0
    /\ pc = <<>> /\ i = <<>> /\ calls = <<>> /\ fails = <<>> /\ reqs = <<>>
    /\ lastErr = <<>> /\ delay = <<>> /\ startOffset = <<>> /\ req = <<>> /\ resp = <<>>
    /\ contentStart = <<>> /\ bar = <<>> /\ ret = <<>> /\ err = <<>>
    /\ gErr = NoErr
    /\ ctxDone = FALSE

\* Download up to the start of the pool, for every tree and every filter
InitTree ==
    /\ tree \in Trees
    /\ workerCount = 1
    /\ profile = [k \in 1..Len(FileEntries(tree)) |-> "good"]
    /\ InitDownload

NextTree == ParentCancel \/ ListWait \/ ListEntry \/ ListDone \/ Setup

SpecTree == InitTree /\ [][NextTree]_vars

\* the whole of Download for the trees without "n" and "n.tmp"; the server is
\* down for at most one file
RunTrees == {t \in Trees : \A n \in 1..Len(t) : t[n].path \notin {"n", "n.tmp"}}

InitRun ==
    /\ tree \in RunTrees
    /\ workerCount \in 1..MaxWorkers
    /\ profile \in [1..Len(FileEntries(tree)) -> {"good", "down"}]
    /\ Cardinality({k \in DOMAIN profile : profile[k] = "down"}) <= 1
    /\ InitDownload

NextRun == ListWait \/ ListEntry \/ ListDone \/ Next

SpecRun == InitRun /\ [][NextRun]_vars

\* ================================================================== claims
Exited(k) == pc[k] = "exited"

\* C1: after a fetch that ran the transfer and returned success, the final path
\* has exactly the descriptor's size and the staging path is gone, whatever
\* accepted response (200 or 206, body of any length, clean end) the server gave.
C1_SuccessHasDescriptorSize ==
    \A k \in Workers :
        Exited(k) /\ ret[k] = "nil" /\ calls[k] > 0
            => /\ disk[localFilePath(k)] = files[k].size
               /\ disk[tmpPath(k)] = Absent

\* C2: the final path of a descriptor holds what it held before the run until the
\* worker has returned success, and the only step that changes it is the rename
\* that ends a successful attempt: it removes the staging file and brings the
\* worker to its successful return.
C2_FinalIsOldOrCommitted ==
    \A k \in Workers :
        disk[localFilePath(k)] # disk0[localFilePath(k)]
            => Exited(k) /\ ret[k] = "nil" /\ calls[k] > 0

C2_OnlyRenameChangesFinal ==
    \A k \in Workers :
        disk'[localFilePath(k)] # disk[localFilePath(k)]
            => /\ pc[k] \in {"attempt", "stream"}
               /\ disk[tmpPath(k)] # Absent
               /\ disk'[tmpPath(k)] = Absent
               /\ disk'[localFilePath(k)] >= disk[tmpPath(k)]
               /\ Exited(k)' /\ ret'[k] = "nil"

\* C2: the final path is the old file or a committed one, and only the rename changes it.
C2_AtomicCommit == [](C2_FinalIsOldOrCommitted) /\ [][C2_OnlyRenameChangesFinal]_vars

C2_Witness ==
    \E k \in Workers :
        /\ Exited(k) /\ ret[k] = "nil"
        /\ disk0[localFilePath(k)] # Absent
        /\ disk[localFilePath(k)] # disk0[localFilePath(k)]
        /\ fails[k] > 0

\* C3: while a request is in flight for a staging file of size s, 0 < s < size,
\* its Range offset is s; when the response is 206 the staging file still has its
\* s bytes when streaming starts, and streaming only appends to it.
C3_RangeIsStagingSize ==
    \A k \in Workers :
        /\ pc[k] = "inflight" /\ 0 < disk[tmpPath(k)] /\ disk[tmpPath(k)] < files[k].size
              => req[k] = disk[tmpPath(k)] /\ startOffset[k] = disk[tmpPath(k)]
        /\ pc[k] = "stream" /\ resp[k] = 206 /\ req[k] # NoRange
              => disk[tmpPath(k)] = req[k] /\ bar[k] = req[k]

C3_StreamAppends ==
    \A k \in Workers :
        pc[k] = "stream" /\ resp[k] = 206
            => \/ disk'[tmpPath(k)] >= disk[tmpPath(k)]
               \/ disk'[tmpPath(k)] = Absent /\ disk'[localFilePath(k)] >= disk[tmpPath(k)]

\* C3: the Range offset is the staging size, a 206 keeps the staged bytes and appends.
C3_ResumeFromOffset == [](C3_RangeIsStagingSize) /\ [][C3_StreamAppends]_vars

C3_Witness ==
    \E k \in Workers :
        /\ pc[k] = "stream" /\ resp[k] = 206
        /\ 0 < req[k] /\ req[k] < files[k].size
        /\ disk[tmpPath(k)] = req[k]

\* C4: processing a descriptor whose final path already has the descriptor's size
\* issues no request, calls no transfer, leaves the disk as it is, adds the
\* descriptor's size to the aggregate progress and returns success.
C4_SkipStep ==
    \A k \in Workers :
        pc[k] = "start" /\ disk[localFilePath(k)] = files[k].size /\ pc'[k] # "start"
            => /\ Exited(k)' /\ ret'[k] = "nil"
               /\ reqs'[k] = 0 /\ calls'[k] = 0
               /\ disk' = disk
               /\ totalBar' = totalBar + files[k].size

\* C4: a descriptor already on disk with its size is skipped without request or write.
C4_AlreadyPresentIsNoOp == [][C4_SkipStep]_vars

C4_Witness ==
    \E k \in Workers :
        /\ Exited(k) /\ ret[k] = "nil" /\ calls[k] = 0 /\ reqs[k] = 0
        /\ files[k].size > 0
        /\ disk[localFilePath(k)] = files[k].size
        /\ disk = disk0

\* C5: the workers that were launched and have not returned are never more than
\* the concurrency limit.
C5_AtMostCActive == Cardinality(Active) <= workerCount

C5_Witness ==
    /\ workerCount < Len(files)
    /\ Cardinality(Active) = workerCount
    /\ workerCount > 1
    /\ \E k \in Workers : pc[k] = "idle"
    /\ \E k \in Workers : pc[k] = "inflight"

SomeWorkerFailed == \E k \in Workers : ret[k] = "err"

\* C6: the first error of a run comes from a descriptor that exhausted its
\* retries, Download returns that error, and once a worker has returned an error
\* no descriptor that has not issued a request issues one.
C6_FirstErrorIsExhaustion ==
    /\ SomeWorkerFailed <=> gErr # NoErr
    /\ gErr # NoErr
          => /\ gErr.kind \notin {"canceled", "none"}
             /\ fails[gErr.file] = maxRetries
             /\ err[gErr.file] = gErr
    /\ mainpc = "returned" /\ SomeWorkerFailed
          => mainret = "err" /\ mainErr = gErr

C6_NoNewTransfer ==
    SomeWorkerFailed => \A k \in Workers : reqs[k] = 0 => reqs'[k] = 0

\* C6: the run returns the error of the exhausted descriptor and starts no new transfer.
C6_FailureStopsTheRun == [](C6_FirstErrorIsExhaustion) /\ [][C6_NoNewTransfer]_vars

C6_Witness ==
    /\ mainpc = "returned" /\ mainret = "err"
    /\ \E j, k \in Workers :
          /\ j # k
          /\ mainErr.file = j /\ fails[j] = maxRetries
          /\ Exited(k) /\ reqs[k] = 0 /\ ret[k] = "err"
          /\ disk[localFilePath(k)] = Absent

\* C7: g.err is set once, by the first worker that returns an error, and no
\* later error replaces it; Download returns that one error.
C7_SetOnceByFirst ==
    /\ gErr # NoErr => gErr' = gErr
    /\ gErr = NoErr /\ gErr' # NoErr
          => /\ ~SomeWorkerFailed
             /\ \E k \in Workers : ret'[k] = "err" /\ err'[k] = gErr' /\ gErr'.file = k

C7_Returned ==
    mainpc = "returned" /\ rootOk /\ Len(files) > 0
        => /\ mainErr = gErr
           /\ mainret = (IF SomeWorkerFailed THEN "err" ELSE "nil")

\* C7: the run returns exactly the error of the worker that failed first.
C7_FirstErrorWins == [](C7_Returned) /\ [][C7_SetOnceByFirst]_vars

C7_Witness ==
    /\ mainpc = "returned"
    /\ \E j, k \in Workers :
          /\ j # k
          /\ ret[j] = "err" /\ ret[k] = "err"
          /\ err[k].kind # "canceled" /\ err[j].kind # "canceled"
          /\ mainErr = err[j]

\* C8: a worker that returns after k < maxRetries failed calls, not by observing
\* the cancellation, returns success and has made exactly k + 1 calls.
C8_SuccessAfterKFailures ==
    \A k \in Workers :
        Exited(k) /\ calls[k] > 0 /\ fails[k] < maxRetries /\ err[k].kind # "canceled"
            => ret[k] = "nil" /\ calls[k] = fails[k] + 1

C8_Witness ==
    \E k \in Workers :
        /\ Exited(k) /\ ret[k] = "nil"
        /\ fails[k] = maxRetries - 1
        /\ calls[k] = maxRetries

\* C9: the transfer is never called more than maxRetries times, and a worker whose
\* calls all failed made exactly maxRetries calls and returns the error of the
\* last one.
C9_ExhaustionReturnsLastError ==
    \A k \in Workers :
        /\ calls[k] <= maxRetries
        /\ Exited(k) /\ fails[k] = calls[k] /\ calls[k] > 0 /\ err[k].kind # "canceled"
              => /\ ret[k] = "err"
                 /\ calls[k] = maxRetries
                 /\ err[k] = lastErr[k]
                 /\ err[k].call = maxRetries

C9_Witness ==
    \E k \in Workers :
        /\ Exited(k) /\ ret[k] = "err"
        /\ calls[k] = maxRetries /\ fails[k] = maxRetries
        /\ err[k].kind = "copy" /\ err[k].call = maxRetries

\* C10: with pairwise distinct paths, no local file before the run, a server that
\* answers every request as HTTP prescribes and a working file system, a run
\* that has returned has returned success, every final file has its descriptor's
\* size, no staging file is left, and the aggregate progress is the sum of the sizes.
CleanRun ==
    /\ rootOk
    /\ \A k \in Workers : profile[k] = "good"
    /\ \A p \in DOMAIN disk0 : disk0[p] = Absent
    /\ \A j, k \in Workers : j # k => files[j].path # files[k].path

\* C10: a clean run succeeds, with every final file at its size and full progress.
C10_CleanRunSucceeds ==
    CleanRun
        => /\ \A k \in Workers : fails[k] = 0
           /\ mainpc = "returned"
                 => /\ mainret = "nil"
                    /\ \A k \in Workers :
                          /\ disk[localFilePath(k)] = files[k].size
                          /\ disk[tmpPath(k)] = Absent
                    /\ totalBar = SumSizes(files, Len(files))
                    /\ totalBar = totalSize

C10_Witness ==
    /\ CleanRun
    /\ mainpc = "returned" /\ mainret = "nil"
    /\ Len(files) = 2 /\ workerCount = 2
    /\ files[1].size > files[2].size /\ files[2].size > 0
    /\ totalBar = files[1].size + files[2].size

\* C15: Download returns only after every worker it launched has terminated: in
\* the state where it has returned, no worker is executing, sleeping or writing,
\* and when it returns the error of a worker every descriptor's worker has
\* finished.
C15_ReturnsAfterAllWorkers ==
    mainpc = "returned"
        => /\ Active = {}
           /\ mainErr.file # 0 => \A k \in Workers : Exited(k)

C15_Witness ==
    /\ mainpc = "returned" /\ mainret = "err"
    /\ \E j, k \in Workers :
          /\ fails[j] = maxRetries /\ mainErr = err[j]
          /\ fails[k] > 0 /\ err[k].kind = "canceled"

\* C12: an attempt that fails before the commit rename (request error, status
\* other than 200 and 206, directory or file open error, stream error) leaves
\* the staging file in place with every byte written so far; nothing touches it
\* until the next attempt, whose resume offset is the staging size at the failure.
C12_FailureKinds == {"request", "status", "mkdir", "open", "copy"}

C12_FailureKeepsBytes ==
    \A k \in Workers :
        pc[k] # "sleep" /\ pc'[k] = "sleep" /\ lastErr'[k].kind \in C12_FailureKinds
            => IF pc[k] = "stream"
                  THEN /\ disk[tmpPath(k)] # Absent
                       /\ disk'[tmpPath(k)] = disk[tmpPath(k)] + (bar'[k] - bar[k])
                       /\ bar'[k] >= bar[k]
                  ELSE disk'[tmpPath(k)] = disk[tmpPath(k)]

C12_UntouchedUntilNextAttempt ==
    \A k \in Workers :
        pc[k] \in {"sleep", "retry"} => disk'[tmpPath(k)] = disk[tmpPath(k)]

C12_OffsetIsStagingSize ==
    \A k \in Workers :
        pc[k] = "inflight"
            => startOffset[k] = (IF disk[tmpPath(k)] = Absent THEN 0 ELSE disk[tmpPath(k)])

C12_FailureKeepsStaging ==
    /\ [](C12_OffsetIsStagingSize)
    /\ [][C12_FailureKeepsBytes /\ C12_UntouchedUntilNextAttempt]_vars

C12_Witness ==
    \E k \in Workers :
        /\ pc[k] = "inflight" /\ lastErr[k].kind = "copy" /\ fails[k] = 1
        /\ startOffset[k] = 1 /\ disk0[tmpPath(k)] = Absent

\* the resume offset an attempt starts with: the staging size, 0 if there is none
C18_Offset(k) == IF disk[tmpPath(k)] = Absent THEN 0 ELSE disk[tmpPath(k)]

\* the attempt of k ends in the commit rename (which may fail) and sends nothing
C18_CommitsWithoutRequest(k) ==
    /\ reqs'[k] = reqs[k]
    /\ \/ /\ Exited(k)' /\ ret'[k] = "nil"
          /\ disk'[localFilePath(k)] = files[k].size
          /\ disk'[tmpPath(k)] = Absent
       \/ pc'[k] = "sleep" /\ lastErr'[k].kind = "rename" /\ disk' = disk

\* C18: for every descriptor, zero-byte descriptors included, an attempt that
\* starts with a resume offset equal to the descriptor's size commits the
\* staging file by rename and issues no network request.
C18_CompleteOffsetCommits ==
    [][\A k \in Workers :
          pc[k] = "attempt" /\ pc'[k] # "attempt" /\ C18_Offset(k) = files[k].size
              => C18_CommitsWithoutRequest(k)]_vars

\* C18 (amended): an attempt that starts with a resume offset greater than zero
\* and equal to the descriptor's size commits the staging file by rename and
\* issues no network request; an attempt that starts with resume offset zero,
\* also that of a zero-byte descriptor, sends a request without Range header
\* unless the run is cancelled.
C18_CompleteNonEmptyOffsetCommits ==
    [][\A k \in Workers :
          pc[k] = "attempt" /\ pc'[k] # "attempt"
              => /\ C18_Offset(k) > 0 /\ C18_Offset(k) = files[k].size
                        => C18_CommitsWithoutRequest(k)
                 /\ C18_Offset(k) = 0 /\ ~ctxDone
                        => /\ pc'[k] = "inflight"
                           /\ reqs'[k] = reqs[k] + 1
                           /\ req'[k] = NoRange]_vars

C18_Witness ==
    \E k \in Workers :
        /\ Exited(k) /\ ret[k] = "nil" /\ calls[k] = 1 /\ reqs[k] = 0
        /\ files[k].size > 0 /\ disk0[tmpPath(k)] = files[k].size
        /\ disk[localFilePath(k)] = files[k].size /\ disk[tmpPath(k)] = Absent

\* C20: the retry policy sleeps only between two attempts: a sleeping worker has
\* an attempt left, and a worker that has failed maxRetries times has slept
\* maxRetries - 1 times when it returns (i counts the sleeps it has finished).
C20_SleepsOnlyBetweenAttempts ==
    \A k \in Workers :
        /\ pc[k] = "sleep" => calls[k] < maxRetries
        /\ Exited(k) /\ fails[k] = maxRetries => i[k] = maxRetries - 1

\* a step that takes worker k out of its backoff sleep other than Sleep(k), the
\* return of time.Sleep when the whole delay has elapsed
C19_LeavesSleepEarly(k) == Next /\ ~Sleep(k) /\ pc'[k] # "sleep"

\* C19: while a worker is in its backoff sleep, raising the cancellation signal
\* ends the wait: the worker can leave the sleep and return without waiting for
\* the rest of the delay to elapse.
C19_CancelEndsSleep ==
    \A k \in Workers :
        pc[k] = "sleep" /\ ctxDone => ENABLED C19_LeavesSleepEarly(k)

\* C17: when the body of a 206 response does not start at the offset the
\* request asked for, the transfer does not append it to the staging file: the
\* file is restarted from zero.
C17_MismatchRestartsFromZero ==
    \A k \in Workers :
        pc[k] = "stream" /\ resp[k] = 206 /\ req[k] # NoRange /\ contentStart[k] # req[k]
            => disk[tmpPath(k)] = 0 /\ startOffset[k] = 0

Paths(fs) == {fs[k].path : k \in 1..Len(fs)}

\* entry e is a file and the filter is empty, or is e's path, or is a directory
\* above e
C13_Included(e) ==
    /\ e.type = "file"
    /\ \/ targetSubFolder = ""
       \/ e.path = targetSubFolder
       \/ /\ Len(e.path) > Len(targetSubFolder)
          /\ SubSeq(e.path, 1, Len(targetSubFolder) + 1) = targetSubFolder \o "/"

\* C13: for every tree and every filter, the list a successful listing returns
\* holds exactly the file entries of the tree that the filter is empty for, or
\* names, or is a directory above; a file whose path only starts with the
\* filter's characters (filter "te", path "teb/x") is left out.
C13_FilterIsExact ==
    mainpc # "list" /\ mainErr.kind # "list"
        => /\ Paths(files) = {tree[n].path : n \in {n \in 1..Len(tree) : C13_Included(tree[n])}}
           /\ targetSubFolder = "te" => "teb/x" \notin Paths(files)

C13_Witness ==
    /\ mainpc # "list"
    /\ targetSubFolder = "te"
    /\ "teb/x" \in Paths(tree)
    /\ Paths(files) = {"te/c", "te/s/w"}

\* C14: when a listing query fails, at the root or in a nested directory, the
\* listing returns no list, not even the files found before the failure, and
\* Download returns an error: it has not created the root directory, there is
\* no worker and the disk is as it was. Download returns a listing error only
\* when a query has failed.
C14_ListFailureAbortsRun ==
    /\ listFault # NoFault /\ mainpc # "list"
          => /\ mainpc = "returned" /\ mainret = "err" /\ mainErr.kind = "list"
             /\ entries = <<>> /\ files = <<>>
             /\ ~rootCreated
             /\ Workers = {} /\ DOMAIN pc = {}
             /\ disk = disk0
    /\ mainErr.kind = "list" => listFault # NoFault /\ queries[Len(queries)] = listFault.dir

C14_Witness ==
    /\ mainpc = "returned" /\ mainErr.kind = "list"
    /\ listFault.dir = "te/s"
    /\ queries = <<"", "te", "te/s">>
    /\ targetSubFolder = "" /\ "te/c" \in Paths(tree)

\* C16: for any two distinct descriptors of the list, the final path and the
\* staging path of one are both different from the final path and the staging
\* path of the other, so that no two workers write or rename the same path.
C16_PathsAreDisjoint ==
    \A j, k \in Workers :
        j # k => {localFilePath(j), tmpPath(j)} \cap {localFilePath(k), tmpPath(k)} = {}

\* C11: every request, of a worker or of the listing, is put on the network in
\* a state where the cancellation signal is not raised: once it is raised no
\* worker sends a request and no listing query is sent.
C11_NoRequestAfterCancel ==
    [][ctxDone => reqs' = reqs /\ queries' = queries]_vars

C11_Witness ==
    /\ ctxDone
    /\ Len(queries) > 1
    /\ \E k \in Workers :
          /\ profile[k] = "good" /\ calls[k] = 1 /\ reqs[k] = 0
          /\ lastErr[k].kind = "request" /\ err[k].kind = "canceled"

\* C21: a worker that starts an iteration of the retry loop with the signal
\* raised makes no further call of downloadFileAtomically and returns the
\* cancellation error, not its last transfer error, however many attempts it
\* has left.
C21_CancelAtLoopTopReturns ==
    [][\A k \in Workers :
          pc[k] = "retry" /\ i[k] < maxRetries /\ ctxDone /\ pc'[k] # "retry"
              => /\ Exited(k)' /\ ret'[k] = "err"
                 /\ err'[k] = [file |-> k, kind |-> "canceled", call |-> 0]
                 /\ calls'[k] = calls[k] /\ reqs'[k] = reqs[k]]_vars

C21_Witness ==
    \E k \in Workers :
        /\ Exited(k) /\ err[k].kind = "canceled"
        /\ fails[k] = 2 /\ lastErr[k].kind = "request" /\ i[k] = 2

\* C22: when the listing yields an empty list, Download returns an error, with
\* no worker started and no file created.
C22_EmptyListIsAnError ==
    mainpc = "returned" /\ files = <<>>
        => mainret = "err" /\ Workers = {} /\ disk = disk0 /\ ~rootCreated

\* the step in which the response is accepted and the staging file opened
C23_Open ==
    \A k \in Workers :
        pc[k] = "inflight" /\ pc'[k] = "stream"
            => IF resp'[k] = 206
                  THEN /\ disk'[tmpPath(k)] = C18_Offset(k)
                       /\ startOffset'[k] = startOffset[k]
                  ELSE /\ resp'[k] = 200
                       /\ disk'[tmpPath(k)] = 0
                       /\ startOffset'[k] = 0

\* the step that streams the body of a 200 response: bar counts its bytes
C23_FullBody ==
    \A k \in Workers :
        pc[k] = "stream" /\ resp[k] = 200 /\ pc'[k] # "stream"
            => /\ bar[k] = 0
               /\ Exited(k)' => disk'[localFilePath(k)] = bar'[k]
               /\ pc'[k] = "sleep" => disk'[tmpPath(k)] = bar'[k]

\* C23: on a 206 response the staging file is opened for append and keeps its
\* bytes; on a 200 response it is emptied and the resume offset reset to 0
\* before streaming, so that a 200 response streamed to its end leaves exactly
\* its body, whatever the staging file held before.
C23_AppendOrTruncate == [][C23_Open /\ C23_FullBody]_vars

C23_Witness ==
    \E k \in Workers :
        /\ Exited(k) /\ ret[k] = "nil" /\ calls[k] = 1 /\ reqs[k] = 1
        /\ disk0[tmpPath(k)] = 2 /\ disk[localFilePath(k)] = 1

\* the step in which the response arrives: only a 200 or a 206 is streamed, and
\* a refused status leaves the disk and both progress counters as they are
C24_Refused ==
    \A k \in Workers :
        pc[k] = "inflight" /\ pc'[k] # "inflight"
            => /\ pc'[k] = "stream" => resp'[k] \in {200, 206}
               /\ pc'[k] # "stream"
                     => /\ pc'[k] = "sleep" /\ fails'[k] = fails[k] + 1
                        /\ disk' = disk /\ bar'[k] = bar[k] /\ totalBar' = totalBar

\* the loop head after a refused status: the next attempt is made
C24_Retried ==
    \A k \in Workers :
        (/\ pc[k] = "retry" /\ lastErr[k].kind = "status" /\ pc'[k] # "retry"
         /\ i[k] < maxRetries /\ ~ctxDone)
            => pc'[k] = "attempt" /\ calls'[k] = calls[k] + 1

\* C24: a response whose status is neither 200 nor 206 makes the attempt fail
\* with an error the retry loop retries; the staging file is not opened,
\* created, truncated or renamed and neither progress counter moves.
C24_BadStatusIsRetryable == [][C24_Refused /\ C24_Retried]_vars

C24_Witness ==
    \E k \in Workers :
        /\ pc[k] = "attempt" /\ calls[k] = 2 /\ lastErr[k].kind = "status"
        /\ disk0[tmpPath(k)] = 1 /\ disk = disk0 /\ totalBar = 0

\* what is left of the listing: the directories not yet queried weigh more than
\* any answer can add to the entries that wait
C25_Left ==
    2 * Len(pending)
        + 2 * (Len(tree) + 1)
            * Cardinality({d \in Dirs(tree) : \A n \in 1..Len(queries) : queries[n] # d})
        - (grants - Len(queries))

\* while it runs the listing has a step to take, and queries only directories
\* of the tree, each at most once
C25_Running ==
    mainpc = "list"
        => /\ ENABLED (ListWait \/ ListEntry \/ ListDone)
           /\ \A n \in 1..Len(queries) : queries[n] \in Dirs(tree)
           /\ \A m, n \in 1..Len(queries) : queries[m] = queries[n] => m = n

\* a listing that returned a list has queried the root and every directory
\* once and returns every file the filter keeps once
C25_Complete ==
    mainpc # "list" /\ mainErr.kind # "list"
        => /\ {queries[n] : n \in 1..Len(queries)} = Dirs(tree)
           /\ Len(queries) = Cardinality(Dirs(tree))
           /\ Paths(files) = {tree[n].path : n \in {n \in 1..Len(tree) : C13_Included(tree[n])}}
           /\ Len(files) = Cardinality(Paths(files))

\* C25: for every finite tree the listing terminates (each of its steps brings
\* it nearer to its end and it is never stuck), sends exactly one query for the
\* root and one for each directory, those outside the filter included, and
\* returns every file that matches the filter exactly once.
C25_ListsEveryFileOnce ==
    /\ [](C25_Running /\ C25_Complete)
    /\ [][mainpc = "list" /\ parentDone' = parentDone
              => C25_Left' < C25_Left \/ (pending = <<>> /\ mainpc' = "setup")]_vars

C25_Witness ==
    /\ mainpc = "setup"
    /\ targetSubFolder = "te/s"
    /\ queries = <<"", "te", "te/s", "teb">>
    /\ files = <<[path |-> "te/s/w", size |-> 2]>>
    /\ Len(tree) = Len(TreeUniverse)

\* a worker has been launched only when the root directory is there and
\* d.totalSize is the sum of the sizes
C26_SetupBeforeWorkers ==
    (\E k \in Workers : pc[k] # "idle")
        => rootCreated /\ totalSize = SumSizes(files, Len(files))

\* a run whose root directory cannot be made returns an error and has launched
\* no worker and sent no request for content
C26_SetupErrorIsFatal ==
    Len(files) > 0 /\ ~rootOk /\ mainpc # "setup"
        => /\ mainpc = "returned" /\ mainret = "err" /\ mainErr.kind = "setup"
           /\ \A k \in Workers : pc[k] = "idle" /\ reqs[k] = 0
           /\ disk = disk0

\* a worker whose parent directory cannot be made has not opened its staging file
C26_ParentBeforeOpen ==
    \A k \in Workers :
        pc[k] = "inflight" /\ pc'[k] = "sleep" /\ lastErr'[k].kind = "mkdir"
            => disk' = disk

\* C26: the root directory is created and the total size computed before the
\* first worker is launched; when the root directory cannot be created the run
\* returns an error with no worker launched and no content requested; a worker
\* creates the parent directory of its file before it opens the staging file.
C26_SetupComesFirst ==
    /\ [](C26_SetupBeforeWorkers /\ C26_SetupErrorIsFatal)
    /\ [][C26_ParentBeforeOpen]_vars

C26_Witness ==
    /\ rootCreated /\ totalSize = 2
    /\ pc[1] = "sleep" /\ lastErr[1].kind = "mkdir" /\ reqs[1] = 1
    /\ disk[tmpPath(1)] = Absent

\* the listing is in d.apiRateLimiter.Wait for the directory at the head of pending
C27_Waiting ==
    /\ mainpc = "list" /\ pending # <<>> /\ Head(pending).type = "directory"
    /\ grants = Len(queries)

\* a query is sent with the token granted for it, and a call that waits with
\* the context cancelled returns the error: no query, no token, no recursion
C27_Gate ==
    /\ Len(queries') > Len(queries)
          => /\ grants = Len(queries) + 1 /\ grants' = grants
             /\ Len(queries') = Len(queries) + 1
    /\ C27_Waiting /\ parentDone /\ <<pending, grants, mainpc>>' # <<pending, grants, mainpc>>
          => /\ mainpc' = "returned" /\ mainret' = "err" /\ mainErr'.kind = "list"
             /\ queries' = queries /\ grants' = grants
             /\ pending' = <<>> /\ entries' = <<>>

\* C27: every listing query is sent only after the rate limiter granted a token
\* for it, one grant per query and one call waiting at a time; a listing call
\* that waits for its token when the context is cancelled returns an error
\* without sending its query and without recursing further.
C27_QueriesAreGated ==
    /\ [](Len(queries) <= grants /\ grants <= Len(queries) + 1)
    /\ [][C27_Gate]_vars

C27_Witness ==
    /\ mainpc = "returned" /\ mainErr.kind = "list"
    /\ parentDone /\ listFault = NoFault
    /\ queries = <<"", "te">> /\ grants = 2
    /\ "te/s" \in Paths(tree)

\* the schedule of the backoff delays, in seconds, by the loop variable
C28_Schedule == <<3, 4, 7, 12, 19>>

\* C28: the delay after the failure of the attempt with loop variable i is
\* i * i seconds plus the base delay of 3 seconds, that is 3, 4, 7, 12 and 19
\* seconds for i = 0..4, whatever the descriptor and the error; each delay of a
\* worker is longer than the one before.
C28_QuadraticBackoff ==
    /\ [](\A k \in Workers : pc[k] = "sleep" => delay[k] = C28_Schedule[i[k] + 1])
    /\ [][\A k \in Workers :
             k \in DOMAIN delay /\ delay'[k] # delay[k] => delay'[k] > delay[k]]_vars

C28_Witness ==
    \E k \in Workers : pc[k] = "sleep" /\ i[k] = 4 /\ delay[k] = 19

\* C29: in every state of a run the aggregate progress counter is at most the
\* total expected size: no byte of a file is counted twice, whatever the
\* failures, retries, responses and staging files.
C29_ProgressAtMostTotal ==
    mainpc \in {"launch", "returned"} => totalBar <= totalSize

\* C30: whenever Download returns success the aggregate progress counter equals
\* the total expected size, also when a file was resumed from a staging file of
\* an earlier run or needed several attempts.
C30_SuccessMeansFullProgress ==
    mainpc = "returned" /\ mainret = "nil" => totalBar = totalSize

\* C31: a single descriptor whose server answers every request as HTTP
\* prescribes, with no local fault, is fetched from every initial local state:
\* when downloadFileWithRetry returns it returns success, and the final file
\* has the descriptor's size.
C31_ProperServerSucceeds ==
    Len(files) = 1 /\ profile[1] = "good" /\ Exited(1)
        => ret[1] = "nil" /\ disk[localFilePath(1)] = files[1].size

\* how far a worker is from the end of its iteration of the retry loop
C32_Pos(p) ==
    CASE p = "exited" -> 0 [] p = "sleep" -> 1 [] p = "stream" -> 2 [] p = "inflight" -> 3
      [] p = "attempt" -> 4 [] p = "retry" -> 5 [] p = "start" -> 6 [] p = "idle" -> 7

\* the steps worker k can still take: its iterations left and its place in this one
C32_Rank(k) == IF Exited(k) THEN 0 ELSE 7 * (maxRetries - i[k]) + C32_Pos(pc[k])

RECURSIVE C32_Sum(_)
C32_Sum(n) == IF n = 0 THEN 0 ELSE C32_Rank(n) + C32_Sum(n - 1)

\* the steps the run can still take
C32_Left ==
    C32_Sum(Len(files))
        + (CASE mainpc = "setup" -> 2 [] mainpc = "launch" -> 1 [] OTHER -> 0)

\* no worker makes more than maxRetries attempts; until Download has returned
\* the run has a step to take, so no worker is left waiting for a slot that
\* never comes; Download returns success or an error
C32_Progress ==
    /\ \A k \in Workers : calls[k] <= maxRetries /\ i[k] <= maxRetries
    /\ mainpc # "returned" => ENABLED Next
    /\ mainpc = "returned" => mainret \in {"nil", "err"} /\ Active = {}

\* C32: for every list and every concurrency limit, when every network call
\* and every sleep returns, every worker ends after at most 5 attempts and
\* Download returns, whether or not the run is cancelled: the run is never
\* stuck before Download has returned, and every step of it lowers the bounded
\* number of steps that are left.
C32_RunTerminates ==
    /\ [](C32_Progress)
    /\ [][C32_Left' < C32_Left]_vars

C32_Witness ==
    /\ mainpc = "returned" /\ mainret = "err"
    /\ workerCount = 1 /\ Len(files) = 3
    /\ calls[1] = maxRetries /\ err[3].kind = "canceled"
====
